---- MODULE Spec2Model ----
(***************************************************************************)
(* IR remote control on a CH32V003 (software/ir_remote/src/main.c).        *)
(* The main loop sleeps in standby, is woken by a key event, reads the     *)
(* keys and calls the encoder configured for the key.  An encoder switches *)
(* the IR LED on and off with timed delays; the model records every delay  *)
(* together with the LED state during it, in microseconds.                 *)
(***************************************************************************)
EXTENDS Integers, Sequences, FiniteSets, TLC

VARIABLES pc,          \* position of the program
          keys,        \* set of keys whose pin reads low (pressed)
          evt,         \* a falling-edge event is pending
          led,         \* 1: pin outputs the PWM carrier, 0: LED off
          freq,        \* carrier frequency set by the last PWM_set, 0: none
          RC5_toggle,  \* the global toggle variable
          addr, cmd, bits,   \* parameters of the running / last encoder call
          message,     \* local of RC5_sendCode
          wave,        \* segments <<led, us>> of the running / last call
          starts,      \* index in wave at which each frame of the call starts
          reps,        \* hold queries of the call that returned non-zero
          proto,       \* encoder of the running / last call
          lastTog,     \* toggle bit read off the last telegram of the
                       \* previous completed RC-5 call, -1: none yet
          cycle2,      \* release/press history of the RC-5 key since the
                       \* last telegram of the running RC-5 call
          RC5_calls    \* calls of RC5_sendCode made so far, modulo 2

vars == <<pc, keys, evt, led, freq, RC5_toggle, addr, cmd, bits, message,
          wave, starts, reps, proto, lastTog, cycle2, RC5_calls>>

-----------------------------------------------------------------------------
(* Bounds of the model *)

\* hold queries per call that may return non-zero
MaxRepeat == 2

\* keys held down at the same time
MaxPressed == 2

-----------------------------------------------------------------------------
(* Parameters the encoders are called with *)

Keys == 1..5

NECAddrs == {0, 4, 165, 255, 256, 4660, 65535}
NECCmds  == {8, 165}
SAMAddrs == {0, 7, 255}
SAMCmds  == {2, 165}
RC5Addrs == {0, 21, 31}
RC5Cmds  == {11, 64, 127}
SONAddrs == {1, 2730, 5461}
SONCmds  == {21, 106}
SONBits  == {12, 15, 20, 13}

-----------------------------------------------------------------------------
(* Integer arithmetic of the C code *)

Pow2(n) == 2 ^ n

\* conversion to uint8_t / uint16_t
U8(x)  == x % 256
U16(x) == x % 65536

\* ~x on an int
BitNot(x) == (-x) - 1

Bit(x, i) == (x \div Pow2(i)) % 2

\* a 16-bit pattern as the set of the positions of its 1 bits, and back
BitsOf(x) == {i \in 0..15 : Bit(U16(x), i) = 1}
BitsVal(S) ==
  (((IF 0 \in S THEN 1 ELSE 0) + (IF 1 \in S THEN 2 ELSE 0))
    + ((IF 2 \in S THEN 4 ELSE 0) + (IF 3 \in S THEN 8 ELSE 0)))
  + (((IF 4 \in S THEN 16 ELSE 0) + (IF 5 \in S THEN 32 ELSE 0))
    + ((IF 6 \in S THEN 64 ELSE 0) + (IF 7 \in S THEN 128 ELSE 0)))
  + (((IF 8 \in S THEN 256 ELSE 0) + (IF 9 \in S THEN 512 ELSE 0))
    + ((IF 10 \in S THEN 1024 ELSE 0) + (IF 11 \in S THEN 2048 ELSE 0)))
  + (((IF 12 \in S THEN 4096 ELSE 0) + (IF 13 \in S THEN 8192 ELSE 0))
    + ((IF 14 \in S THEN 16384 ELSE 0) + (IF 15 \in S THEN 32768 ELSE 0)))

\* a & b on 16-bit patterns
BitAnd(a, b) == BitsVal(BitsOf(a) \cap BitsOf(b))

-----------------------------------------------------------------------------
(* LED and delay primitives.  s is a record [led, wave]. *)

IR_on(s)  == [s EXCEPT !.led = 1]
IR_off(s) == [s EXCEPT !.led = 0]
DLY_us(s, us) == [s EXCEPT !.wave = Append(@, <<s.led, us>>)]
DLY_ms(s, ms) == DLY_us(s, ms * 1000)

Out == [led |-> led, wave |-> wave]

\* s is a state of the LED; the loops below test it at their head, so that
\* the state an iteration starts from is a value, not a pending expression
Settled(s) == s.led \in {0, 1}

-----------------------------------------------------------------------------
(* Timer *)

F_CPU == 1500000

\* the auto-reload value PWM_set(f) writes: the PWM period in clock cycles
\* is this value plus one
PWM_ATRLR(f) == F_CPU \div f - 1

-----------------------------------------------------------------------------
(* Buttons *)

\* KEY_read with the pins tested from KEY5 down to KEY1
KEY_read_Highest ==
  IF 5 \in keys THEN 5
  ELSE IF 4 \in keys THEN 4
  ELSE IF 3 \in keys THEN 3
  ELSE IF 2 \in keys THEN 2
  ELSE IF 1 \in keys THEN 1
  ELSE 0

KEY_read ==
  IF 1 \in keys THEN 1
  ELSE IF 2 \in keys THEN 2
  ELSE IF 3 \in keys THEN 3
  ELSE IF 4 \in keys THEN 4
  ELSE IF 5 \in keys THEN 5
  ELSE 0

-----------------------------------------------------------------------------
(* NEC protocol *)

NEC_FREQ == 38000

\* NEC_normalPulse without switching the LED off after the burst
NEC_normalPulse_NoOff(s) == DLY_us(DLY_us(IR_on(s), 552), 543)

NEC_startPulse(s)  == DLY_us(IR_off(DLY_us(IR_on(s), 9000)), 4500)
NEC_repeatPulse(s) == DLY_us(IR_off(DLY_us(IR_on(s), 9000)), 2250)
NEC_normalPulse(s) == DLY_us(IR_off(DLY_us(IR_on(s), 552)), 543)
NEC_bit1Pause(s)   == DLY_us(s, 1125)

\* NEC_sendBit extending the pause of a 1 by the whole 1687 us
NEC_sendBit_Long(s, value) ==
  IF value % 2 = 1 THEN DLY_us(NEC_normalPulse(s), 1687)
                   ELSE NEC_normalPulse(s)

\* the body of the loop of NEC_sendByte
NEC_sendBit(s, value) ==
  IF value % 2 = 1 THEN NEC_bit1Pause(NEC_normalPulse(s))
                   ELSE NEC_normalPulse(s)

\* for(i=8; i; i--, value>>=1) { normalPulse; if(value & 1) bit1Pause; }
RECURSIVE NEC_sendByteLoop(_, _, _)
NEC_sendByteLoop(s, value, i) ==
  IF i = 0 \/ ~Settled(s) THEN s
  ELSE NEC_sendByteLoop(NEC_sendBit(s, value), value \div 2, i - 1)

\* the parameter is a uint8_t: the argument is converted on the call
NEC_sendByte(s, value) == NEC_sendByteLoop(s, U8(value), 8)

\* NEC_sendAddr sending the address twice instead of address and inverse
NEC_sendAddr_NoInverse(s, a) ==
  IF a > 255
  THEN NEC_sendByte(NEC_sendByte(s, a), a \div 256)
  ELSE NEC_sendByte(NEC_sendByte(s, a), a)

\* NEC_sendAddr sending the high byte of an extended address first
NEC_sendAddr_HighFirst(s, a) ==
  IF a > 255
  THEN NEC_sendByte(NEC_sendByte(s, a \div 256), a)
  ELSE NEC_sendByte(NEC_sendByte(s, a), BitNot(a))

\* the address bytes of NEC_sendCode
NEC_sendAddr(s, a) ==
  IF a > 255
  THEN NEC_sendByte(NEC_sendByte(s, a), a \div 256)
  ELSE NEC_sendByte(NEC_sendByte(s, a), BitNot(a))

\* NEC_sendCmd sending the command twice instead of command and inverse
NEC_sendCmd_NoInverse(s, c) == NEC_sendByte(NEC_sendByte(s, c), c)

\* the command bytes of NEC_sendCode and SAM_sendCode
NEC_sendCmd(s, c) == NEC_sendByte(NEC_sendByte(s, c), BitNot(c))

-----------------------------------------------------------------------------
(* SAMSUNG protocol *)

SAM_startPulse(s)  == DLY_us(IR_off(DLY_us(IR_on(s), 4500)), 4500)
SAM_repeatPause(s) == DLY_ms(s, 44)

\* SAM_sendAddr sending address and inverse as NEC does
SAM_sendAddr_Inverse(s, a) == NEC_sendByte(NEC_sendByte(s, a), BitNot(a))

\* the address bytes of SAM_sendCode
SAM_sendAddr(s, a) == NEC_sendByte(NEC_sendByte(s, a), a)

-----------------------------------------------------------------------------
(* RC-5 protocol *)

RC5_FREQ == 36000

RC5_bit0Pulse(s) == DLY_us(IR_off(DLY_us(IR_on(s), 880)), 871)

\* RC5_bit1Pulse with uncompensated half bits
RC5_bit1Pulse_Long(s) == DLY_us(IR_on(DLY_us(IR_off(s), 889)), 889)

RC5_bit1Pulse(s) == DLY_us(IR_on(DLY_us(IR_off(s), 880)), 871)
RC5_repeatPause(s) == DLY_ms(s, 89)

RC5_startBit  == 8192
RC5_cmdBit7   == 4096
RC5_toggleBit == 2048

\* RC5_message with the 7th command bit not inverted
RC5_message_NoInverse(a, c, tog) ==
  BitsVal(BitsOf(a * 64)
          \cup (BitsOf(c) \cap BitsOf(63))
          \cup (IF BitAnd(c, 64) # 0 THEN BitsOf(RC5_cmdBit7) ELSE {})
          \cup BitsOf(RC5_startBit)
          \cup (IF tog # 0 THEN BitsOf(RC5_toggleBit) ELSE {}))

\* the message RC5_sendCode prepares from its parameters and the toggle:
\* addr << 6, then each |= adds the 1 bits of its right-hand side
RC5_message(a, c, tog) ==
  BitsVal(BitsOf(a * 64)
          \cup (BitsOf(c) \cap BitsOf(63))
          \cup (IF BitAnd(BitNot(c), 64) # 0 THEN BitsOf(RC5_cmdBit7) ELSE {})
          \cup BitsOf(RC5_startBit)
          \cup (IF tog # 0 THEN BitsOf(RC5_toggleBit) ELSE {}))

\* for(i=14; i; i--, bitmask>>=1) (message & bitmask) ? bit1Pulse : bit0Pulse
RECURSIVE RC5_sendBits(_, _, _, _)
RC5_sendBits(s, msg, bitmask, i) ==
  IF i = 0 \/ ~Settled(s) THEN s
  ELSE RC5_sendBits(IF BitAnd(msg, bitmask) # 0 THEN RC5_bit1Pulse(s)
                                                ELSE RC5_bit0Pulse(s),
                    msg, bitmask \div 2, i - 1)

-----------------------------------------------------------------------------
(* SONY SIRC protocol *)

SON_FREQ == 40000

SON_startPulse(s) == DLY_us(IR_off(DLY_us(IR_on(s), 2400)), 579)
SON_bit0Pulse(s)  == DLY_us(IR_off(DLY_us(IR_on(s), 587)), 579)
SON_bit1Pulse(s)  == DLY_us(IR_off(DLY_us(IR_on(s), 1192)), 579)
SON_repeatPause(s) == DLY_ms(s, 27)

\* do { (value & 1) ? bit1Pulse : bit0Pulse; value >>= 1; } while(--number);
RECURSIVE SON_sendByteLoop(_, _, _)
SON_sendByteLoop(s, value, number) ==
  IF U8(number - 1) = 0 \/ ~Settled(s)
  THEN IF value % 2 = 1 THEN SON_bit1Pulse(s) ELSE SON_bit0Pulse(s)
  ELSE SON_sendByteLoop(IF value % 2 = 1 THEN SON_bit1Pulse(s)
                                         ELSE SON_bit0Pulse(s),
                        value \div 2, U8(number - 1))

SON_sendByte(s, value, number) == SON_sendByteLoop(s, U8(value), number)

\* SON_sendAddr sending 5 address bits for an unknown version
SON_sendAddr_Default5(s, a, b) ==
  IF b = 15 THEN SON_sendByte(s, a, 8)
  ELSE IF b = 20 THEN SON_sendByte(SON_sendByte(s, a, 8), a \div 256, 5)
  ELSE SON_sendByte(s, a, 5)

\* SON_sendAddr sending the 5 high bits of the 20-bit version first
SON_sendAddr_HighFirst(s, a, b) ==
  IF b = 12 THEN SON_sendByte(s, a, 5)
  ELSE IF b = 15 THEN SON_sendByte(s, a, 8)
  ELSE IF b = 20 THEN SON_sendByte(SON_sendByte(s, a \div 256, 5), a, 8)
  ELSE s

\* SON_sendAddr taking the 8 extended bits of the 20-bit version from the
\* high byte, after the 5 low bits
SON_sendAddr_Low5High8(s, a, b) ==
  IF b = 12 THEN SON_sendByte(s, a, 5)
  ELSE IF b = 15 THEN SON_sendByte(s, a, 8)
  ELSE IF b = 20 THEN SON_sendByte(SON_sendByte(s, a, 5), a \div 256, 8)
  ELSE s

\* switch(bits) of SON_sendCode
SON_sendAddr(s, a, b) ==
  IF b = 12 THEN SON_sendByte(s, a, 5)
  ELSE IF b = 15 THEN SON_sendByte(s, a, 8)
  ELSE IF b = 20 THEN SON_sendByte(SON_sendByte(s, a, 8), a \div 256, 5)
  ELSE s

-----------------------------------------------------------------------------
(* Reading RC-5 telegrams off the recorded wave *)

\* the n segments of w that start at index i
Slice(w, i, n) == SubSeq(w, i, i + n - 1)

\* a Manchester bit cell: space then burst is 1, burst then space is 0
ManchesterBit(w, i) ==
  IF w[i][1] = 0 /\ w[i + 1][1] = 1 THEN 1
  ELSE IF w[i][1] = 1 /\ w[i + 1][1] = 0 THEN 0
  ELSE -1

\* bit k (1..14, in order of transmission) of the telegram starting at i
RC5BitAt(w, i, k) == ManchesterBit(w, i + 2 * (k - 1))

\* the third bit of the telegram of w that starts at index i
RC5TogAt(w, i) == RC5BitAt(w, i, 3)

-----------------------------------------------------------------------------
(* The program *)

Init ==
  /\ pc = "standby"
  /\ keys = {}
  /\ evt = FALSE
  /\ led = 0
  /\ freq = 0
  /\ RC5_toggle = 0
  /\ addr = 0 /\ cmd = 0 /\ bits = 0 /\ message = 0
  /\ wave = <<>>
  /\ starts = <<>>
  /\ reps = 0
  /\ proto = "none"
  /\ lastTog = -1
  /\ cycle2 = "idle"
  /\ RC5_calls = 0

\* the part of the state an encoder step writes through s
Emit(s) == led' = s.led /\ wave' = s.wave

Env == <<keys, evt, cycle2>>
Args == <<addr, cmd, bits, message, proto>>

\* a key goes down: its pin reads low and the falling edge raises the event
KeyPress(k) ==
  /\ k \notin keys
  /\ Cardinality(keys) < MaxPressed
  /\ keys' = keys \cup {k}
  /\ evt' = TRUE
  /\ cycle2' = IF k = 2 /\ cycle2 = "released" THEN "repressed" ELSE cycle2
  /\ UNCHANGED <<pc, led, freq, RC5_toggle, wave, starts, reps, lastTog, RC5_calls>>
  /\ UNCHANGED Args

KeyRelease(k) ==
  /\ k \in keys
  /\ keys' = keys \ {k}
  /\ cycle2' = IF k = 2 /\ cycle2 = "sent" THEN "released" ELSE cycle2
  /\ UNCHANGED <<pc, evt, led, freq, RC5_toggle, wave, starts, reps, lastTog, RC5_calls>>
  /\ UNCHANGED Args

\* STDBY_WFE_now(): standby ends when an event is pending
Wake ==
  /\ pc = "standby"
  /\ evt
  /\ evt' = FALSE
  /\ pc' = "debounce"
  /\ UNCHANGED <<keys, cycle2, led, freq, RC5_toggle, wave, starts, reps, lastTog, RC5_calls>>
  /\ UNCHANGED Args

\* what every entry of an encoder resets in the record of the call
Enter(p, a, c, b, m, f) ==
  /\ proto' = p /\ addr' = a /\ cmd' = c /\ bits' = b /\ message' = m
  /\ freq' = f
  /\ wave' = <<>> /\ starts' = <<>> /\ reps' = 0
  /\ UNCHANGED <<led, RC5_toggle, lastTog>>
  /\ UNCHANGED Env

\* DLY_ms(1); key = KEY_read(); case 1: NEC_sendCode(..): PWM_set(NEC_FREQ)
CallNEC ==
  /\ pc = "debounce" /\ KEY_read = 1
  /\ \E a \in NECAddrs, c \in NECCmds : Enter("NEC", a, c, 0, 0, NEC_FREQ)
  /\ pc' = "nec_start"
  /\ UNCHANGED RC5_calls

\* CallRC5 with a message that keeps the bits of the previous call
CallRC5_StaticMessage ==
  /\ pc = "debounce" /\ KEY_read = 2
  /\ \E a \in RC5Addrs, c \in RC5Cmds :
       Enter("RC5", a, c, 0,
             BitsVal(BitsOf(message) \cup BitsOf(RC5_message(a, c, RC5_toggle))),
             RC5_FREQ)
  /\ pc' = "rc5_bits"
  /\ RC5_calls' = 1 - RC5_calls

\* case 2: RC5_sendCode(..): PWM_set(RC5_FREQ) and the message preparation
CallRC5 ==
  /\ pc = "debounce" /\ KEY_read = 2
  /\ \E a \in RC5Addrs, c \in RC5Cmds :
       Enter("RC5", a, c, 0, RC5_message(a, c, RC5_toggle), RC5_FREQ)
  /\ pc' = "rc5_bits"
  /\ RC5_calls' = 1 - RC5_calls

\* CallSON without PWM_set: the timer keeps the frequency it has
CallSON_KeepFreq ==
  /\ pc = "debounce" /\ KEY_read = 3
  /\ \E a \in SONAddrs, c \in SONCmds, b \in SONBits :
       Enter("SON", a, c, b, 0, freq)
  /\ pc' = "son_start"
  /\ UNCHANGED RC5_calls

\* case 3: SON_sendCode(..): PWM_set(SON_FREQ)
CallSON ==
  /\ pc = "debounce" /\ KEY_read = 3
  /\ \E a \in SONAddrs, c \in SONCmds, b \in SONBits :
       Enter("SON", a, c, b, 0, SON_FREQ)
  /\ pc' = "son_start"
  /\ UNCHANGED RC5_calls

\* case 4: SAM_sendCode(..): PWM_set(NEC_FREQ)
CallSAM ==
  /\ pc = "debounce" /\ KEY_read = 4
  /\ \E a \in SAMAddrs, c \in SAMCmds : Enter("SAM", a, c, 0, 0, NEC_FREQ)
  /\ pc' = "sam_start"
  /\ UNCHANGED RC5_calls

\* case 5: DLY_ms(10)
CallDLY ==
  /\ pc = "debounce" /\ KEY_read = 5
  /\ pc' = "dly10"
  /\ UNCHANGED <<led, freq, RC5_toggle, wave, starts, reps, lastTog, RC5_calls>>
  /\ UNCHANGED Env /\ UNCHANGED Args

EndDLY ==
  /\ pc = "dly10"
  /\ pc' = "standby"
  /\ UNCHANGED <<led, freq, RC5_toggle, wave, starts, reps, lastTog, RC5_calls>>
  /\ UNCHANGED Env /\ UNCHANGED Args

\* default: break
NoKey ==
  /\ pc = "debounce" /\ KEY_read = 0
  /\ pc' = "standby"
  /\ UNCHANGED <<led, freq, RC5_toggle, wave, starts, reps, lastTog, RC5_calls>>
  /\ UNCHANGED Env /\ UNCHANGED Args

Frame == <<freq, RC5_toggle, lastTog, reps, RC5_calls>>

(* NEC_sendCode *)

\* NEC_Start sending the telegram only if a key is down
NEC_Start_IfHeld ==
  /\ pc = "nec_start"
  /\ IF KEY_read = 0
     THEN UNCHANGED <<led, wave, starts>> /\ pc' = "nec_hold"
     ELSE /\ starts' = Append(starts, Len(wave) + 1)
          /\ Emit(NEC_startPulse(Out))
          /\ pc' = "nec_addr"
  /\ UNCHANGED Frame /\ UNCHANGED Env /\ UNCHANGED Args

NEC_Start ==
  /\ pc = "nec_start"
  /\ starts' = Append(starts, Len(wave) + 1)
  /\ Emit(NEC_startPulse(Out))
  /\ pc' = "nec_addr"
  /\ UNCHANGED Frame /\ UNCHANGED Env /\ UNCHANGED Args

NEC_Addr ==
  /\ pc = "nec_addr"
  /\ Emit(NEC_sendAddr(Out, addr))
  /\ pc' = "nec_cmd"
  /\ UNCHANGED starts
  /\ UNCHANGED Frame /\ UNCHANGED Env /\ UNCHANGED Args

NEC_Cmd ==
  /\ pc = "nec_cmd"
  /\ Emit(NEC_normalPulse(NEC_sendCmd(Out, cmd)))
  /\ pc' = "nec_hold"
  /\ UNCHANGED starts
  /\ UNCHANGED Frame /\ UNCHANGED Env /\ UNCHANGED Args

\* while(KEY_read()) ...: DLY_ms(40) and the repeat pulse of NEC_repeatCode
NEC_Again ==
  /\ pc = "nec_hold" /\ KEY_read # 0
  /\ reps < MaxRepeat
  /\ reps' = reps + 1
  /\ starts' = Append(starts, Len(wave) + 2)
  /\ Emit(NEC_repeatPulse(DLY_ms(Out, 40)))
  /\ pc' = "nec_rep"
  /\ UNCHANGED <<freq, RC5_toggle, lastTog, RC5_calls>>
  /\ UNCHANGED Env /\ UNCHANGED Args

\* NEC_Repeat without the end burst
NEC_Repeat_NoEnd ==
  /\ pc = "nec_rep"
  /\ Emit(DLY_ms(Out, 56))
  /\ pc' = "nec_hold"
  /\ UNCHANGED starts
  /\ UNCHANGED Frame /\ UNCHANGED Env /\ UNCHANGED Args

\* the end burst and DLY_ms(56) of NEC_repeatCode
NEC_Repeat ==
  /\ pc = "nec_rep"
  /\ Emit(DLY_ms(NEC_normalPulse(Out), 56))
  /\ pc' = "nec_hold"
  /\ UNCHANGED starts
  /\ UNCHANGED Frame /\ UNCHANGED Env /\ UNCHANGED Args

\* NEC_Return sending one more repeat code after the query found no key
NEC_Return_OneMore ==
  /\ pc = "nec_hold" /\ KEY_read = 0
  /\ reps < MaxRepeat
  /\ reps' = reps + 1
  /\ starts' = Append(starts, Len(wave) + 2)
  /\ Emit(NEC_repeatPulse(DLY_ms(Out, 40)))
  /\ pc' = "nec_rep"
  /\ UNCHANGED <<freq, RC5_toggle, lastTog, RC5_calls>>
  /\ UNCHANGED Env /\ UNCHANGED Args

\* while(KEY_read()) ends: NEC_sendCode returns to main
NEC_Return ==
  /\ pc = "nec_hold" /\ KEY_read = 0
  /\ pc' = "standby"
  /\ UNCHANGED <<led, wave, starts>>
  /\ UNCHANGED Frame /\ UNCHANGED Env /\ UNCHANGED Args

(* SAM_sendCode *)

SAM_Start ==
  /\ pc = "sam_start"
  /\ starts' = Append(starts, Len(wave) + 1)
  /\ Emit(SAM_sendAddr(SAM_startPulse(Out), addr))
  /\ pc' = "sam_cmd"
  /\ UNCHANGED Frame /\ UNCHANGED Env /\ UNCHANGED Args

\* SAM_Cmd giving the telegram up when the key is found released
SAM_Cmd_Abort ==
  /\ pc = "sam_cmd"
  /\ IF KEY_read = 0
     THEN UNCHANGED <<led, wave>> /\ pc' = "standby"
     ELSE /\ Emit(SAM_repeatPause(NEC_normalPulse(NEC_sendCmd(Out, cmd))))
          /\ pc' = "sam_hold"
  /\ UNCHANGED starts
  /\ UNCHANGED Frame /\ UNCHANGED Env /\ UNCHANGED Args

SAM_Cmd ==
  /\ pc = "sam_cmd"
  /\ Emit(SAM_repeatPause(NEC_normalPulse(NEC_sendCmd(Out, cmd))))
  /\ pc' = "sam_hold"
  /\ UNCHANGED starts
  /\ UNCHANGED Frame /\ UNCHANGED Env /\ UNCHANGED Args

SAM_Again ==
  /\ pc = "sam_hold" /\ KEY_read # 0
  /\ reps < MaxRepeat
  /\ reps' = reps + 1
  /\ pc' = "sam_start"
  /\ UNCHANGED <<led, wave, starts, freq, RC5_toggle, lastTog, RC5_calls>>
  /\ UNCHANGED Env /\ UNCHANGED Args

SAM_Return ==
  /\ pc = "sam_hold" /\ KEY_read = 0
  /\ pc' = "standby"
  /\ UNCHANGED <<led, wave, starts>>
  /\ UNCHANGED Frame /\ UNCHANGED Env /\ UNCHANGED Args

(* RC5_sendCode *)

RC5_Bits ==
  /\ pc = "rc5_bits"
  /\ starts' = Append(starts, Len(wave) + 1)
  /\ Emit(RC5_sendBits(Out, message, RC5_startBit, 14))
  /\ pc' = "rc5_off"
  /\ cycle2' = IF 2 \in keys THEN "sent" ELSE "idle"
  /\ UNCHANGED <<keys, evt>>
  /\ UNCHANGED Frame /\ UNCHANGED Args

\* RC5_Pause without switching the LED off after the last bit
RC5_Pause_NoOff ==
  /\ pc = "rc5_off"
  /\ Emit(RC5_repeatPause(Out))
  /\ pc' = "rc5_hold"
  /\ UNCHANGED starts
  /\ UNCHANGED Frame /\ UNCHANGED Env /\ UNCHANGED Args

RC5_Pause ==
  /\ pc = "rc5_off"
  /\ Emit(RC5_repeatPause(IR_off(Out)))
  /\ pc' = "rc5_hold"
  /\ UNCHANGED starts
  /\ UNCHANGED Frame /\ UNCHANGED Env /\ UNCHANGED Args

\* RC5_Again with the toggle flipped and the message rebuilt per telegram
RC5_Again_Flip ==
  /\ pc = "rc5_hold" /\ KEY_read # 0
  /\ reps < MaxRepeat
  /\ reps' = reps + 1
  /\ RC5_toggle' = 1 - RC5_toggle
  /\ message' = RC5_message(addr, cmd, 1 - RC5_toggle)
  /\ pc' = "rc5_bits"
  /\ UNCHANGED <<led, wave, starts, freq, lastTog, addr, cmd, bits, proto>>
  /\ UNCHANGED RC5_calls
  /\ UNCHANGED Env

RC5_Again ==
  /\ pc = "rc5_hold" /\ KEY_read # 0
  /\ reps < MaxRepeat
  /\ reps' = reps + 1
  /\ pc' = "rc5_bits"
  /\ UNCHANGED <<led, wave, starts, freq, RC5_toggle, lastTog, RC5_calls>>
  /\ UNCHANGED Env /\ UNCHANGED Args

\* RC5_Return without RC5_toggle ^= 1
RC5_Return_NoFlip ==
  /\ pc = "rc5_hold" /\ KEY_read = 0
  /\ lastTog' = RC5TogAt(wave, starts[Len(starts)])
  /\ cycle2' = "idle"
  /\ pc' = "standby"
  /\ UNCHANGED <<led, wave, starts, freq, reps, keys, evt, RC5_toggle>>
  /\ UNCHANGED RC5_calls
  /\ UNCHANGED Args

\* the loop ends: RC5_toggle ^= 1
RC5_Return ==
  /\ pc = "rc5_hold" /\ KEY_read = 0
  /\ RC5_toggle' = 1 - RC5_toggle
  /\ lastTog' = RC5TogAt(wave, starts[Len(starts)])
  /\ cycle2' = "idle"
  /\ pc' = "standby"
  /\ UNCHANGED <<led, wave, starts, freq, reps, keys, evt>>
  /\ UNCHANGED RC5_calls
  /\ UNCHANGED Args

(* SON_sendCode *)

SON_Start ==
  /\ pc = "son_start"
  /\ starts' = Append(starts, Len(wave) + 1)
  /\ Emit(SON_sendByte(SON_startPulse(Out), cmd, 7))
  /\ pc' = "son_addr"
  /\ UNCHANGED Frame /\ UNCHANGED Env /\ UNCHANGED Args

SON_Addr ==
  /\ pc = "son_addr"
  /\ Emit(SON_repeatPause(SON_sendAddr(Out, addr, bits)))
  /\ pc' = "son_hold"
  /\ UNCHANGED starts
  /\ UNCHANGED Frame /\ UNCHANGED Env /\ UNCHANGED Args

SON_Again ==
  /\ pc = "son_hold" /\ KEY_read # 0
  /\ reps < MaxRepeat
  /\ reps' = reps + 1
  /\ pc' = "son_start"
  /\ UNCHANGED <<led, wave, starts, freq, RC5_toggle, lastTog, RC5_calls>>
  /\ UNCHANGED Env /\ UNCHANGED Args

\* SON_Return flipping the RC-5 toggle as RC5_sendCode does
SON_Return_Flip ==
  /\ pc = "son_hold" /\ KEY_read = 0
  /\ RC5_toggle' = 1 - RC5_toggle
  /\ pc' = "standby"
  /\ UNCHANGED <<led, wave, starts, freq, lastTog, reps, RC5_calls>>
  /\ UNCHANGED Env /\ UNCHANGED Args

SON_Return ==
  /\ pc = "son_hold" /\ KEY_read = 0
  /\ pc' = "standby"
  /\ UNCHANGED <<led, wave, starts>>
  /\ UNCHANGED Frame /\ UNCHANGED Env /\ UNCHANGED Args

Press   == \E k \in Keys : KeyPress(k)
Release == \E k \in Keys : KeyRelease(k)

Next ==
  \/ Press \/ Release
  \/ Wake \/ CallNEC \/ CallRC5 \/ CallSON \/ CallSAM \/ CallDLY \/ EndDLY
  \/ NoKey
  \/ NEC_Start \/ NEC_Addr \/ NEC_Cmd \/ NEC_Again \/ NEC_Repeat \/ NEC_Return
  \/ SAM_Start \/ SAM_Cmd \/ SAM_Again \/ SAM_Return
  \/ RC5_Bits \/ RC5_Pause \/ RC5_Again \/ RC5_Return
  \/ SON_Start \/ SON_Addr \/ SON_Again \/ SON_Return

Spec == Init /\ [][Next]_vars

-----------------------------------------------------------------------------
(* Reading pulse-distance frames (NEC, SAMSUNG) off the recorded wave *)

\* the indices of the bursts of f
BurstsOf(f) == {j \in 1..Len(f) : f[j][1] = 1}

\* the k-th smallest index of the set B
KthOf(B, k) == CHOOSE j \in B : Cardinality({x \in B : x < j}) = k - 1

\* the index of the k-th burst of f
BurstAt(f, k) == KthOf(BurstsOf(f), k)

\* the data bit that starts with the burst at p: a burst and a space, then
\* the next burst for a 0, a further space and the next burst for a 1;
\* -1 when it is no such bit
NECBit(f, p) ==
  IF p + 2 > Len(f) \/ f[p] # <<1, 552>> \/ f[p + 1] # <<0, 543>> THEN -1
  ELSE IF f[p + 2][1] = 1 THEN 0
  ELSE IF p + 3 <= Len(f) /\ f[p + 2] = <<0, 1125>> /\ f[p + 3][1] = 1 THEN 1
  ELSE -1

\* the 32 data bits that follow the first burst of f
NECBits(f) ==
  LET B == BurstsOf(f)
  IN  [k \in 1..32 |-> NECBit(f, KthOf(B, k + 1))]

\* byte k (1..) of a bit sequence, least significant bit first
LSBByte(b, k) ==
  LET o == 8 * (k - 1)
  IN  (b[o + 1] + 2 * b[o + 2] + 4 * b[o + 3] + 8 * b[o + 4])
      + (16 * b[o + 5] + 32 * b[o + 6] + 64 * b[o + 7] + 128 * b[o + 8])

\* the four bytes of the frame f: a start burst, 32 data bits and an end
\* burst; <<>> when f is no such frame
FourBytes(f) ==
  IF Cardinality(BurstsOf(f)) = 34 /\ \A j \in 1..32 : NECBits(f)[j] \in {0, 1}
  THEN LET b == NECBits(f)
       IN  <<LSBByte(b, 1), LSBByte(b, 2), LSBByte(b, 3), LSBByte(b, 4)>>
  ELSE <<>>

\* the segments of w from index i to its end
Rest(w, i) == SubSeq(w, i, Len(w))

\* the NEC telegram of the call is complete and no repeat code follows yet
NECTelegramDone == proto = "NEC" /\ pc = "nec_hold" /\ reps = 0

\* the wave is a 9000/4500 start frame, 32 bits making the bytes by, and
\* one end burst
NECTelegramIs(w, by) ==
  /\ Len(w) >= 2
  /\ Slice(w, 1, 2) = << <<1, 9000>>, <<0, 4500>> >>
  /\ FourBytes(w) = by
  /\ Rest(w, BurstAt(w, 34)) = << <<1, 552>>, <<0, 543>> >>

\* C1: for an address in 0..0xFF, NEC_sendCode emits the 9000/4500 start
\* frame, then the bytes address, inverted address, command, inverted
\* command, each least significant bit first, then exactly one end burst.
C1_NECStandardFrame ==
  (NECTelegramDone /\ addr <= 255)
    => NECTelegramIs(wave, <<addr, 255 - addr, cmd, 255 - cmd>>)

C1_Witness ==
  /\ NECTelegramDone /\ addr = 4 /\ cmd = 8
  /\ NECTelegramIs(wave, <<4, 251, 8, 247>>)

\* C2: for an address in 0x0100..0xFFFF, NEC_sendCode emits the bytes
\* address low byte, address high byte, command, inverted command, each
\* least significant bit first, and no inverted address byte: the end burst
\* follows the fourth byte.
C2_NECExtendedFrame ==
  (NECTelegramDone /\ addr > 255)
    => NECTelegramIs(wave, <<addr % 256, addr \div 256, cmd, 255 - cmd>>)

C2_Witness ==
  /\ NECTelegramDone /\ addr = 4660
  /\ NECTelegramIs(wave, <<52, 18, cmd, 255 - cmd>>)

-----------------------------------------------------------------------------
(* Frames of a call *)

\* index of the last segment of frame k of the call
FrameEnd(k) == IF k < Len(starts) THEN starts[k + 1] - 1 ELSE Len(wave)

\* frame k of the call
FrameOf(k) == SubSeq(wave, starts[k], FrameEnd(k))

\* every telegram of the SAMSUNG call is complete
SAMFramesDone == proto = "SAM" /\ pc = "sam_hold"

\* f is a 4500/4500 start frame, 32 bits making the bytes by, one end burst
\* and the 44 ms pause
SAMTelegramIs(f, by) ==
  /\ Len(f) >= 2
  /\ Slice(f, 1, 2) = << <<1, 4500>>, <<0, 4500>> >>
  /\ FourBytes(f) = by
  /\ Rest(f, BurstAt(f, 34)) = << <<1, 552>>, <<0, 543>>, <<0, 44000>> >>

\* C3: every telegram of SAM_sendCode, the first and each repetition, is a
\* 4500/4500 start frame, the bytes address, address, command, inverted
\* command, least significant bit first, and one end burst; the call emits
\* nothing but such telegrams (no abbreviated repeat frame).
C3_SAMTelegrams ==
  SAMFramesDone
    => /\ Len(starts) = reps + 1
       /\ starts[1] = 1
       /\ \A k \in 1..Len(starts) :
            SAMTelegramIs(FrameOf(k), <<addr, addr, cmd, 255 - cmd>>)

C3_Witness ==
  /\ SAMFramesDone /\ addr = 7 /\ cmd = 2 /\ reps = 2
  /\ SAMTelegramIs(FrameOf(3), <<7, 7, 2, 253>>)

-----------------------------------------------------------------------------
(* RC-5 telegrams *)

\* a telegram of the RC-5 call is complete
RC5FramesDone == proto = "RC5" /\ pc \in {"rc5_off", "rc5_hold"}

\* the 14 bits of the telegram that starts at index i of w
RC5BitsAt(w, i) ==
  <<RC5BitAt(w, i, 1), RC5BitAt(w, i, 2), RC5BitAt(w, i, 3), RC5BitAt(w, i, 4),
    RC5BitAt(w, i, 5), RC5BitAt(w, i, 6), RC5BitAt(w, i, 7), RC5BitAt(w, i, 8),
    RC5BitAt(w, i, 9), RC5BitAt(w, i, 10), RC5BitAt(w, i, 11),
    RC5BitAt(w, i, 12), RC5BitAt(w, i, 13), RC5BitAt(w, i, 14)>>

\* the 14 bits the RC-5 standard puts in a telegram, in order of
\* transmission: start, inverted command bit 6, toggle, address bits 4..0,
\* command bits 5..0
RC5Expected(a, c, t) ==
  <<1, 1 - Bit(c, 6), t,
    Bit(a, 4), Bit(a, 3), Bit(a, 2), Bit(a, 1), Bit(a, 0),
    Bit(c, 5), Bit(c, 4), Bit(c, 3), Bit(c, 2), Bit(c, 1), Bit(c, 0)>>

\* segments of the frames of an RC-5 call: 14 bit cells, and the pause once
\* RC5_Pause has run
RC5FrameLen(k) == IF k = Len(starts) /\ pc = "rc5_off" THEN 28 ELSE 29

\* C4: each telegram of RC5_sendCode carries exactly 14 bits, most
\* significant first: 1, the inverse of command bit 6, the toggle state,
\* address bits 4..0, command bits 5..0.
C4_RC5Message ==
  RC5FramesDone
    => \A k \in 1..Len(starts) :
         /\ Len(FrameOf(k)) = RC5FrameLen(k)
         /\ RC5BitsAt(wave, starts[k]) = RC5Expected(addr, cmd, RC5_toggle)

C4_Witness ==
  /\ RC5FramesDone /\ addr = 0 /\ cmd = 11 /\ RC5_toggle = 0
  /\ RC5BitsAt(wave, starts[1]) = <<1, 1, 0, 0, 0, 0, 0, 0, 0, 0, 1, 0, 1, 1>>

\* a and b differ by no more than 2 % of a
Near(a, b) == 50 * (IF a > b THEN a - b ELSE b - a) <= a

\* the bit cell j (1..14) of the telegram that starts at i: two half-bit
\* segments, on then off for a 0 and off then on for a 1, the halves of
\* equal length up to the timing compensation and the same for every cell
RC5CellIs(w, i, j, v) ==
  LET a == w[i + 2 * (j - 1)]
      b == w[i + 2 * (j - 1) + 1]
  IN  /\ a[1] = (IF v = 0 THEN 1 ELSE 0)
      /\ b[1] = (IF v = 0 THEN 0 ELSE 1)
      /\ Near(a[2], b[2])
      /\ a[2] = w[i][2] /\ b[2] = w[i + 1][2]

\* C5: in every RC-5 telegram each of the 14 bits of the message is two
\* half-bit segments of equal length (up to the timing compensation), one
\* cell after the other without a gap; a 0 is on then off, a 1 is off then
\* on; after the 14th bit the LED is off during the whole repeat pause.
C5_RC5Manchester ==
  RC5FramesDone
    => \A k \in 1..Len(starts) :
         /\ \A j \in 1..14 :
              RC5CellIs(wave, starts[k], j, Bit(message, 14 - j))
         /\ RC5FrameLen(k) = 29
              => /\ FrameEnd(k) = starts[k] + 28
                 /\ wave[starts[k] + 28] = <<0, 89000>>
         /\ pc = "rc5_hold" => led = 0

C5_Witness ==
  /\ RC5FramesDone /\ pc = "rc5_hold" /\ led = 0
  /\ Bit(message, 0) = 1
  /\ wave[starts[1] + 27][1] = 1
  /\ wave[starts[1] + 28] = <<0, 89000>>

-----------------------------------------------------------------------------
(* SONY telegrams *)

\* every telegram of the SONY call is complete
SONFramesDone == proto = "SON" /\ pc = "son_hold"

\* data bits of a telegram of the version b
SONDataBits(b) ==
  IF b = 12 THEN 12 ELSE IF b = 15 THEN 15 ELSE IF b = 20 THEN 20 ELSE 7

\* number of bursts in f
Bursts(f) == Cardinality(BurstsOf(f))

\* C6: after the start frame each SONY telegram has 12, 15 or 20 data bits
\* for the versions 12, 15 and 20 and the 7 command bits for any other
\* version value; in every case the repeat pause follows and the telegram
\* is sent once more for each hold query that found a key down.
C6_SONBitCount ==
  SONFramesDone
    => /\ Len(starts) = reps + 1
       /\ starts[1] = 1
       /\ \A k \in 1..Len(starts) :
            LET f == FrameOf(k)
            IN  /\ Len(f) = 2 * SONDataBits(bits) + 3
                /\ Bursts(f) = SONDataBits(bits) + 1
                /\ f[1][1] = 1 /\ f[2][1] = 0
                /\ f[Len(f)] = <<0, 27000>>

C6_Witness ==
  /\ SONFramesDone /\ bits = 13 /\ reps = 2
  /\ Len(starts) = 3
  /\ Bursts(FrameOf(3)) = 8
  /\ wave[Len(wave)] = <<0, 27000>>

\* the data bit at segments i, i + 1 of f has the value v: a burst and a
\* space as long as the start frame's space; every 0 has the same burst
\* and every 1 the same burst, about twice as long as that of a 0
SONBitIs(f, i, v) ==
  /\ f[i][1] = 1
  /\ f[i + 1] = <<0, f[2][2]>>
  /\ \A j \in 2..((Len(f) - 1) \div 2) :
       LET o == f[2 * j - 1][2]
       IN  IF v = 1 THEN o = f[i][2] \/ Near(f[i][2], 2 * o)
                    ELSE o = f[i][2] \/ Near(o, 2 * f[i][2])

\* C7: a SONY telegram is the start frame (2400 burst and a space), the
\* command bits 0..6 in ascending order, then the address bits in ascending
\* order; every data bit is a burst and a space, the space the same for
\* both values and the burst of a 1 about twice the burst of a 0.
C7_SONEncoding ==
  SONFramesDone
    => \A k \in 1..Len(starts) :
         LET f == FrameOf(k)
         IN  /\ f[1] = <<1, 2400>> /\ f[2][1] = 0
             /\ \A j \in 0..6 : SONBitIs(f, 3 + 2 * j, Bit(cmd, j))
             /\ \A j \in 0..(SONDataBits(bits) - 8) :
                  SONBitIs(f, 17 + 2 * j, Bit(addr, j))

C7_Witness ==
  /\ SONFramesDone /\ bits = 20 /\ addr = 2730 /\ cmd = 21
  /\ FrameOf(1)[17] = <<1, 587>>
  /\ FrameOf(1)[19] = <<1, 1192>>
  /\ FrameOf(1)[39] = <<1, 1192>>
  /\ FrameOf(1)[41] = <<1, 587>>

-----------------------------------------------------------------------------
(* The RC-5 toggle bit *)

RC5pcs == {"rc5_bits", "rc5_off", "rc5_hold"}

\* every telegram of the call so far carries the toggle bit of the first
RC5SameToggle ==
  \A k \in 1..Len(starts) :
    RC5TogAt(wave, starts[k]) = RC5TogAt(wave, starts[1])

\* C8: within one call of RC5_sendCode every telegram carries the same
\* toggle bit, and no step of the call before its return changes the
\* toggle state.
C8_ToggleFixedInCall ==
  [][(proto = "RC5" /\ pc \in RC5pcs /\ pc' \in RC5pcs)
       => (RC5_toggle' = RC5_toggle /\ RC5SameToggle')]_vars

C8_Witness ==
  /\ proto = "RC5" /\ pc = "rc5_hold" /\ reps = 2 /\ Len(starts) = 3
  /\ RC5_toggle = 1
  /\ RC5TogAt(wave, starts[3]) = 1

\* C9: the telegrams of an RC-5 call carry a toggle bit different from the
\* one the previous RC-5 call sent, whatever was called in between, and
\* when a call has returned the toggle state differs from the bit its
\* telegrams carried.
C9_ToggleFlipsPerCall ==
  /\ (RC5FramesDone /\ lastTog # -1)
       => \A k \in 1..Len(starts) : RC5TogAt(wave, starts[k]) # lastTog
  /\ (proto = "RC5" /\ pc \notin RC5pcs)
       => RC5_toggle = 1 - RC5TogAt(wave, starts[Len(starts)])

C9_Witness ==
  /\ RC5FramesDone /\ lastTog = 1 /\ freq = RC5_FREQ
  /\ RC5TogAt(wave, starts[1]) = 0

\* C10: when the RC-5 key has been released and pressed again since the
\* last RC-5 telegram, the next telegram sent while it is down carries a
\* toggle bit different from the last one.
C10_TogglePerPress ==
  [][(pc = "rc5_bits" /\ pc' = "rc5_off" /\ Len(starts) > 0
        /\ cycle2 = "repressed" /\ 2 \in keys)
       => RC5TogAt(wave', starts'[Len(starts')])
            # RC5TogAt(wave, starts[Len(starts)])]_vars

-----------------------------------------------------------------------------
(* The hold query of the encoders *)

\* the positions at which an encoder evaluates KEY_read()
HoldPcs == {"nec_hold", "sam_hold", "rc5_hold", "son_hold"}

\* the positions of main, outside every encoder
MainPcs == {"standby", "debounce", "dly10"}

\* the key whose case of the switch in main calls the encoder p
KeyOf(p) ==
  CASE p = "NEC" -> 1
    [] p = "RC5" -> 2
    [] p = "SON" -> 3
    [] p = "SAM" -> 4
    [] OTHER -> 0

\* C11: when the hold query of a call is evaluated while the key that
\* started the call is up, the call emits nothing further and returns, even
\* if another key is down.
C11_HoldQueryOwnKey ==
  [][(pc \in HoldPcs /\ KeyOf(proto) \notin keys /\ pc' # pc)
       => (pc' = "standby" /\ wave' = wave)]_vars

\* C12: when a hold query of a call finds no key down, the call returns at
\* once: nothing more is appended to the wave of the call, the LED stays
\* off and the query is not evaluated again; between calls the LED is off
\* and nothing is emitted.
C12_ReturnOnFalse ==
  [][/\ (pc \in HoldPcs /\ KEY_read = 0 /\ pc' # pc)
          => (pc' = "standby" /\ wave' = wave /\ led = 0 /\ led' = 0)
     /\ (pc \in MainPcs /\ pc' \in MainPcs)
          => (wave' = wave /\ led' = 0)]_vars

C12_Witness ==
  /\ pc = "standby" /\ proto = "SON" /\ reps = 2 /\ keys = {}
  /\ Len(starts) = 3 /\ led = 0
  /\ wave[Len(wave)] = <<0, 27000>>

-----------------------------------------------------------------------------
(* Frames and the keys *)

\* the positions inside a frame and the position that follows each
FrameStep ==
  [nec_start |-> "nec_addr", nec_addr |-> "nec_cmd", nec_cmd |-> "nec_hold",
   nec_rep |-> "nec_hold",
   sam_start |-> "sam_cmd", sam_cmd |-> "sam_hold",
   rc5_bits |-> "rc5_off", rc5_off |-> "rc5_hold",
   son_start |-> "son_addr", son_addr |-> "son_hold"]

FramePcs == DOMAIN FrameStep

\* the NEC repeat frame with the pause that follows it
NECRepeatFrame ==
  << <<1, 9000>>, <<0, 2250>>, <<1, 552>>, <<0, 543>>, <<0, 56000>> >>

\* frame k of the call is complete: it has its start frame, all its bursts,
\* its end and its pause
FrameComplete(k) ==
  LET f == FrameOf(k)
      n == Len(f)
  IN  CASE proto = "NEC" /\ k = 1 ->
             LET e == IF k < Len(starts) THEN n - 1 ELSE n
             IN  /\ e >= 4
                 /\ Slice(f, 1, 2) = << <<1, 9000>>, <<0, 4500>> >>
                 /\ Bursts(f) = 34
                 /\ Slice(f, e - 1, 2) = << <<1, 552>>, <<0, 543>> >>
        [] proto = "NEC" /\ k > 1 ->
             n >= 5 /\ Slice(f, 1, 5) = NECRepeatFrame
        [] proto = "SAM" ->
             /\ n >= 5
             /\ Slice(f, 1, 2) = << <<1, 4500>>, <<0, 4500>> >>
             /\ Bursts(f) = 34
             /\ Slice(f, n - 2, 3) = << <<1, 552>>, <<0, 543>>, <<0, 44000>> >>
        [] proto = "RC5" ->
             /\ n = 29
             /\ \A j \in 1..14 : f[2 * j - 1][2] = 880 /\ f[2 * j][2] = 871
             /\ f[29] = <<0, 89000>>
        [] proto = "SON" ->
             /\ n = 2 * SONDataBits(bits) + 3
             /\ Slice(f, 1, 2) = << <<1, 2400>>, <<0, 579>> >>
             /\ Bursts(f) = SONDataBits(bits) + 1
             /\ f[n] = <<0, 27000>>
        [] OTHER -> FALSE

AllFramesComplete == \A k \in 1..Len(starts) : FrameComplete(k)

\* C13: a step inside a frame leads to the next position of the frame
\* whatever the keys are, never out of the call, and every time an encoder
\* arrives at its hold query every frame it has started is complete.
C13_FramesNeverTruncated ==
  [][/\ (pc \in FramePcs /\ pc' # pc) => pc' = FrameStep[pc]
     /\ (pc' \in HoldPcs /\ pc' # pc)
          => (Len(starts') = reps' + 1 /\ AllFramesComplete')]_vars

\* the key went up in the middle of the second SAMSUNG telegram
C13_Witness ==
  /\ pc = "sam_cmd" /\ proto = "SAM" /\ reps = 1 /\ keys = {}
  /\ Len(starts) = 2
  /\ wave[Len(wave)][1] = 0

-----------------------------------------------------------------------------
(* Number of frames of a call *)

\* the segments of w equal to g
CountOf(w, g) == Cardinality({j \in DOMAIN w : w[j] = g})

\* the frames in the wave w of a call of the encoder p, counted by their
\* leading bursts (RC-5 has none: by the repeat pauses)
FramesIn(p, w) ==
  CASE p = "NEC" -> CountOf(w, <<1, 9000>>)
    [] p = "SAM" -> CountOf(w, <<1, 4500>>)
    [] p = "RC5" -> CountOf(w, <<0, 89000>>)
    [] p = "SON" -> CountOf(w, <<1, 2400>>)
    [] OTHER -> 0

\* C14: at every hold query and after the return of a call, the wave of
\* the call holds one frame more than hold queries found a key down, also
\* when no key was down during the call at all; of the NEC frames exactly
\* one is the telegram and the others are repeat codes.
C14_FrameCount ==
  (proto # "none" /\ pc \in HoldPcs \cup MainPcs)
    => /\ FramesIn(proto, wave) = 1 + reps
       /\ Len(starts) = 1 + reps
       /\ proto = "NEC"
            => (CountOf(wave, <<0, 4500>>) = 1
                /\ CountOf(wave, <<0, 2250>>) = reps)

\* a call that has returned without any hold query finding a key down
C14_Witness ==
  /\ pc = "standby" /\ proto = "SAM" /\ reps = 0
  /\ FramesIn("SAM", wave) = 1
  /\ wave[Len(wave)] = <<0, 44000>>

-----------------------------------------------------------------------------
(* NEC repetitions *)

\* what one repetition adds to the wave
NECRepetition == << <<0, 40000>> >> \o NECRepeatFrame

\* segments of the telegram of the NEC call, at a hold query
NECTelegramLen == Len(wave) - 6 * reps

\* C15: at every hold query of NEC_sendCode the wave is the telegram
\* followed, for each query that found a key down, by 40 ms of silence, a
\* 9000 us burst, a 2250 us space, one end burst and 56 ms of silence; a
\* repetition has no data bit, and the telegram (start frame, 32 bits, end
\* burst) occurs once.
C15_NECRepetitions ==
  (proto = "NEC" /\ pc = "nec_hold")
    => /\ NECTelegramLen >= 4
       /\ Slice(wave, 1, 2) = << <<1, 9000>>, <<0, 4500>> >>
       /\ Bursts(Slice(wave, 1, NECTelegramLen)) = 34
       /\ Slice(wave, NECTelegramLen - 1, 2) = << <<1, 552>>, <<0, 543>> >>
       /\ \A k \in 1..reps :
            Slice(wave, NECTelegramLen + 6 * (k - 1) + 1, 6) = NECRepetition
       /\ CountOf(wave, <<0, 4500>>) = 1
       /\ Bursts(wave) = 34 + 2 * reps

C15_Witness ==
  /\ proto = "NEC" /\ pc = "nec_hold" /\ reps = 2
  /\ Slice(wave, Len(wave) - 11, 12) = NECRepetition \o NECRepetition
  /\ Slice(wave, Len(wave) - 13, 2) = << <<1, 552>>, <<0, 543>> >>

-----------------------------------------------------------------------------
(* Data bits of NEC and SAMSUNG telegrams *)

\* the four bytes the running NEC or SAMSUNG call sends
BytesOfCall ==
  IF proto = "SAM" THEN <<addr, addr, cmd, 255 - cmd>>
  ELSE IF addr > 255 THEN <<addr % 256, addr \div 256, cmd, 255 - cmd>>
  ELSE <<addr, 255 - addr, cmd, 255 - cmd>>

\* data bit k (1..32, in order of transmission) of the bytes by
DataBit(by, k) == Bit(by[(k - 1) \div 8 + 1], (k - 1) % 8)

\* index in a telegram of the burst of data bit k: after the start frame,
\* two segments per preceding bit and one more per preceding 1
DataBitAt(by, k) ==
  3 + 2 * (k - 1) + Cardinality({j \in 1..(k - 1) : DataBit(by, j) = 1})

\* data bit k of the telegram f: the burst and the space are those of the
\* first data bit whatever the value; a 0 ends there, a 1 has 1125 us of
\* space more; then the next burst starts
DataBitIs(f, by, k) ==
  LET p == DataBitAt(by, k)
  IN  /\ f[p][1] = 1 /\ f[p] = f[3]
      /\ f[p + 1][1] = 0 /\ f[p + 1] = f[4]
      /\ IF DataBit(by, k) = 0
         THEN f[p + 2][1] = 1
         ELSE f[p + 2] = <<0, 1125>> /\ f[p + 3][1] = 1

\* C16: in every NEC and SAMSUNG telegram each of the 32 data bits has the
\* same burst and the same space after it for a 0 and for a 1; a 1 is a 0
\* followed by 1125 us of space more, so that it lasts 1125 us longer.
C16_PulseDistance ==
  /\ NECTelegramDone
       => \A k \in 1..32 : DataBitIs(wave, BytesOfCall, k)
  /\ SAMFramesDone
       => \A n \in 1..Len(starts) :
            \A k \in 1..32 : DataBitIs(FrameOf(n), BytesOfCall, k)

C16_Witness ==
  /\ NECTelegramDone /\ addr = 4
  /\ wave[7] = wave[3] /\ wave[8] = wave[4]
  /\ wave[9] = <<0, 1125>>
  /\ wave[10] = wave[3]

-----------------------------------------------------------------------------
(* The address of the 20-bit SONY telegram *)

\* data bit j (0.., in order of transmission) of the SONY telegram f, read
\* off the length of its burst; -1 when it is neither
SONBitAt(f, j) ==
  IF f[3 + 2 * j] = <<1, 1192>> THEN 1
  ELSE IF f[3 + 2 * j] = <<1, 587>> THEN 0
  ELSE -1

\* address bit j (0..) of f: the data bits after the 7 command bits
SONAddrBit(f, j) == SONBitAt(f, 7 + j)

\* the number made by the n address bits of f from bit o on, least
\* significant first
SONField(f, o, n) == BitsVal({i \in 0..(n - 1) : SONAddrBit(f, o + i) = 1})

\* C17: in a telegram of the 20-bit version the 13 bits after the command
\* are the bits 0..12 of the address argument in ascending order: read as 5
\* address bits and 8 extended bits they are argument & 0x1F and
\* argument >> 5, read as 8 and 5 bits the low byte and the 5 bits above.
C17_SON20AddressBits ==
  (SONFramesDone /\ bits = 20)
    => \A k \in 1..Len(starts) :
         LET f == FrameOf(k)
         IN  /\ \A j \in 0..12 : SONAddrBit(f, j) = Bit(addr, j)
             /\ SONField(f, 0, 5) = BitAnd(addr, 31)
             /\ SONField(f, 5, 8) = (addr \div 32) % 256
             /\ SONField(f, 0, 8) = addr % 256
             /\ SONField(f, 8, 5) = (addr \div 256) % 32

C17_Witness ==
  /\ SONFramesDone /\ bits = 20 /\ addr = 5461
  /\ SONField(FrameOf(1), 0, 5) = 21
  /\ SONField(FrameOf(1), 5, 8) = 170

-----------------------------------------------------------------------------
(* Carrier frequency *)

\* the carrier frequency of each protocol, in Hertz
ProtocolFreq(p) ==
  CASE p = "NEC" -> 38000
    [] p = "SAM" -> 38000
    [] p = "RC5" -> 36000
    [] p = "SON" -> 40000
    [] OTHER -> 0

\* C18: every step that emits (appends bursts and spaces to the wave) is a
\* step of an encoder call, taken with the timer set to the frequency of
\* the protocol of that call (NEC and SAMSUNG 38 kHz, RC-5 36 kHz, SONY
\* 40 kHz) and its reload value, whatever calls came before; the LED is
\* never left on outside a call.
C18_CarrierOfCall ==
  [][/\ (wave' # wave /\ wave' # <<>>)
          => /\ pc \notin MainPcs /\ proto' = proto
             /\ freq = ProtocolFreq(proto) /\ freq' = freq
             /\ PWM_ATRLR(freq) = F_CPU \div ProtocolFreq(proto) - 1
     /\ led' = 1 => (pc' \notin MainPcs /\ freq' = ProtocolFreq(proto'))]_vars

\* a SONY telegram sent after an RC-5 call has been completed
C18_Witness ==
  /\ proto = "SON" /\ pc = "son_addr" /\ lastTog # -1
  /\ freq = 40000
  /\ wave[1] = <<1, 2400>>

-----------------------------------------------------------------------------
(* Repetition periods *)

\* the delays that occur in f
DelaysOf(f) == {f[j][2] : j \in DOMAIN f}

\* the sum of the delays of f whose length is in V
RECURSIVE SumDelays(_, _)
SumDelays(f, V) ==
  IF V = {} THEN 0
  ELSE LET v == CHOOSE x \in V : TRUE
       IN  v * Cardinality({j \in DOMAIN f : f[j][2] = v})
             + SumDelays(f, V \ {v})

\* the time f takes, in microseconds: from the start of a telegram to the
\* start of the next when f is a frame with its pause
Duration(f) == SumDelays(f, DelaysOf(f))

\* C19: every SAMSUNG telegram with its pause takes 108 ms within 2 %.
C19_SAMPeriod ==
  SAMFramesDone
    => \A k \in 1..Len(starts) : Near(108000, Duration(FrameOf(k)))

\* C20: every SONY telegram of the versions 12, 15 and 20 with its pause
\* takes 45 ms within 2 %.
C20_SONPeriod ==
  (SONFramesDone /\ bits \in {12, 15, 20})
    => \A k \in 1..Len(starts) : Near(45000, Duration(FrameOf(k)))

\* C21: at every hold query of NEC_sendCode each frame of the call, the
\* telegram and each repeat code, starts 108 ms within 2 % before the burst
\* of the repeat code that follows it.
C21_NECPeriod ==
  (proto = "NEC" /\ pc = "nec_hold")
    => \A k \in 1..(Len(starts) - 1) : Near(108000, Duration(FrameOf(k)))

\* C22: every RC-5 telegram with its pause takes the time of 14 bit cells
\* (two half bits each) and the 89 ms pause, the same whatever the address,
\* the command and the toggle state are, and that is 114 ms within 2 %.
C22_RC5Period ==
  (proto = "RC5" /\ pc = "rc5_hold")
    => \A k \in 1..Len(starts) :
         /\ Duration(FrameOf(k)) = 14 * (880 + 871) + 89000
         /\ Near(114000, Duration(FrameOf(k)))

C22_Witness ==
  /\ proto = "RC5" /\ pc = "rc5_hold" /\ reps = 1
  /\ addr = 31 /\ cmd = 127 /\ RC5_toggle = 1
  /\ Duration(FrameOf(2)) = 113514

-----------------------------------------------------------------------------
(* The encoders as functions of their parameters *)

\* the LED off and nothing emitted yet
Idle == [led |-> 0, wave |-> <<>>]

\* the telegram of NEC_sendCode and one pass of while(KEY_read()); the
\* state after each statement is settled before the next one runs
NEC_telegram(s, a, c) ==
  LET s1 == NEC_startPulse(s)
      s2 == NEC_sendAddr(s1, a)
      s3 == NEC_sendCmd(s2, c)
  IN  IF Settled(s1) /\ Settled(s2) /\ Settled(s3)
      THEN NEC_normalPulse(s3) ELSE s
NEC_repeatCode(s) ==
  DLY_ms(NEC_normalPulse(NEC_repeatPulse(DLY_ms(s, 40))), 56)

\* one pass of the do-while loops of the other encoders
SAM_telegram(s, a, c) ==
  LET s1 == SAM_startPulse(s)
      s2 == SAM_sendAddr(s1, a)
      s3 == NEC_sendCmd(s2, c)
  IN  IF Settled(s1) /\ Settled(s2) /\ Settled(s3)
      THEN SAM_repeatPause(NEC_normalPulse(s3)) ELSE s
\* (msg is the 14-bit message, prepared before the loop is entered)
RC5_telegram(s, msg) ==
  LET s1 == RC5_sendBits(s, msg, RC5_startBit, 14)
  IN  IF msg \in 0..16383 /\ Settled(s1)
      THEN RC5_repeatPause(IR_off(s1)) ELSE s
SON_telegram(s, a, c, b) ==
  LET s1 == SON_startPulse(s)
      s2 == SON_sendByte(s1, c, 7)
      s3 == SON_sendAddr(s2, a, b)
  IN  IF Settled(s1) /\ Settled(s2) /\ Settled(s3)
      THEN SON_repeatPause(s3) ELSE s

\* n passes of the loop of the encoder p
RECURSIVE Passes(_, _, _, _, _, _, _)
Passes(s, p, a, c, b, tog, n) ==
  IF n = 0 THEN s
  ELSE LET t == CASE p = "NEC" -> NEC_repeatCode(s)
                  [] p = "SAM" -> SAM_telegram(s, a, c)
                  [] p = "RC5" -> RC5_telegram(s, RC5_message(a, c, tog))
                  [] p = "SON" -> SON_telegram(s, a, c, b)
       IN  IF Settled(t) THEN Passes(t, p, a, c, b, tog, n - 1) ELSE s

\* what a call of the encoder p emits when n hold queries find a key down,
\* starting with the LED off: a function of the parameters, of the toggle
\* state on entry and of n only
SendCode(p, a, c, b, tog, n) ==
  IF p = "NEC"
  THEN LET t == NEC_telegram(Idle, a, c)
       IN  IF Settled(t) THEN Passes(t, p, a, c, b, tog, n).wave ELSE <<>>
  ELSE Passes(Idle, p, a, c, b, tog, n + 1).wave

\* C23: whenever an encoder arrives at its hold query, what the call has
\* emitted is the function SendCode of the encoder, its parameters, the
\* RC-5 toggle state and the number of hold queries that found a key down;
\* nothing of what was called before enters it.
C23_CallsRepeatable ==
  [][(pc' \in HoldPcs /\ pc' # pc)
       => wave' = SendCode(proto', addr', cmd', bits', RC5_toggle', reps')]_vars

\* the second telegram of an RC-5 call with toggle state 0 that follows
\* two completed RC-5 calls
C23_Witness ==
  /\ proto = "RC5" /\ pc = "rc5_hold" /\ reps = 1
  /\ lastTog = 1 /\ RC5_toggle = 0 /\ addr = 0 /\ cmd = 11
  /\ wave = SendCode("RC5", 0, 11, 0, 0, 1)

-----------------------------------------------------------------------------
(* Lifetime of the RC-5 toggle *)

\* C24: the toggle state is 0 until the first call of RC5_sendCode returns
\* and no step but the return of RC5_sendCode changes it; so between calls
\* it is the number of RC-5 calls made modulo 2, and every telegram of the
\* n-th RC-5 call carries the toggle bit (n - 1) mod 2.
C24_ToggleLifetime ==
  [][/\ RC5_toggle' # RC5_toggle
          => (proto = "RC5" /\ pc = "rc5_hold" /\ pc' = "standby")
     /\ IF proto' = "RC5" /\ pc' \in RC5pcs
        THEN /\ RC5_toggle' = 1 - RC5_calls'
             /\ \A k \in 1..Len(starts') :
                  RC5TogAt(wave', starts'[k]) = 1 - RC5_calls'
        ELSE RC5_toggle' = RC5_calls']_vars

\* a telegram of an RC-5 call with an odd number, not the first, sent
\* after calls of the other encoders
C24_Witness ==
  /\ RC5FramesDone /\ RC5_calls = 1 /\ lastTog = 1
  /\ RC5_toggle = 0
  /\ RC5TogAt(wave, starts[Len(starts)]) = 0

-----------------------------------------------------------------------------
(* The LED outside a frame *)

\* C25: the LED is off in standby and in the rest of main, from the
\* initial state on, and at every hold query of an encoder, where the last
\* thing emitted is a space or a pause; so it is off at every return.
C25_LedOffOutsideFrames ==
  /\ pc \in MainPcs => led = 0
  /\ pc \in HoldPcs => (led = 0 /\ wave # <<>> /\ wave[Len(wave)][1] = 0)

\* an RC-5 call whose telegrams end with the LED on has returned
C25_Witness ==
  /\ pc = "standby" /\ proto = "RC5" /\ reps = 1 /\ led = 0
  /\ wave[Len(wave) - 1] = <<1, 871>>
  /\ wave[Len(wave)] = <<0, 89000>>

-----------------------------------------------------------------------------
(* NEC_sendCode over its whole parameter range *)

\* the parameters: every standard address with some commands, every
\* command with one standard address, some extended addresses
NECParams ==
  ((0..255) \X {0, 8, 165, 255})
    \cup ({4} \X (0..255))
    \cup ({256, 4660, 32768, 43690, 65280, 65535} \X {0, 8, 165, 255})

\* NEC_sendCode has just been called for key 1, which is still down
InitNEC ==
  /\ pc = "nec_start"
  /\ keys = {1}
  /\ evt = FALSE
  /\ led = 0
  /\ freq = NEC_FREQ
  /\ RC5_toggle = 0
  /\ \E pr \in NECParams : addr = pr[1] /\ cmd = pr[2]
  /\ bits = 0 /\ message = 0
  /\ wave = <<>>
  /\ starts = <<>>
  /\ reps = 0
  /\ proto = "NEC"
  /\ lastTog = -1
  /\ cycle2 = "idle"
  /\ RC5_calls = 0

\* the telegram of NEC_sendCode
NextNEC == NEC_Start \/ NEC_Addr \/ NEC_Cmd

SpecNEC == InitNEC /\ [][NextNEC]_vars

\* the 1 bits of the 16-bit value x
OnesOf(x) == Cardinality(BitsOf(x))

\* C26: a standard NEC telegram (address 0..0xFF) has 32 data bits of which
\* exactly 16 are 1, and lasts the same time for every address and
\* command; an extended telegram has 8 one-bits plus those of the address
\* and lasts 1125 us longer for each of them.
C26_NECOneBits ==
  NECTelegramDone
    => /\ Bursts(wave) = 34
       /\ CountOf(wave, <<0, 1125>>)
            = (IF addr <= 255 THEN 16 ELSE 8 + OnesOf(addr))
       /\ Duration(wave)
            = 9000 + 4500 + 33 * (552 + 543)
                + 1125 * (IF addr <= 255 THEN 16 ELSE 8 + OnesOf(addr))

C26_Witness ==
  /\ NECTelegramDone /\ addr = 170 /\ cmd = 255
  /\ CountOf(wave, <<0, 1125>>) = 16
  /\ Duration(wave) = 67635

-----------------------------------------------------------------------------
(* The dispatch of main *)

\* the position at which the case of key k in the switch of main begins
EntryOf(k) ==
  CASE k = 1 -> "nec_start"
    [] k = 2 -> "rc5_bits"
    [] k = 3 -> "son_start"
    [] k = 4 -> "sam_start"
    [] k = 5 -> "dly10"
    [] OTHER -> "standby"

\* the positions inside the encoder of protocol p
EncoderPcs(p) ==
  CASE p = "NEC" -> {"nec_start", "nec_addr", "nec_cmd", "nec_hold", "nec_rep"}
    [] p = "SAM" -> {"sam_start", "sam_cmd", "sam_hold"}
    [] p = "RC5" -> RC5pcs
    [] p = "SON" -> {"son_start", "son_addr", "son_hold"}
    [] OTHER -> {}

\* the lowest-numbered key that is down, 0 when none is
LowestPressed ==
  IF keys = {} THEN 0 ELSE CHOOSE k \in keys : \A j \in keys : k <= j

\* C27: KEY_read is 0 exactly when no key is down and otherwise the lowest
\* key that is down; the step that follows the debounce delay of a wake-up
\* enters the command set of that key and of no other, or returns to
\* standby with nothing emitted when no key is down; a command set is
\* entered by that step only, once per wake-up.
C27_LowestKeyDispatch ==
  [][/\ KEY_read = LowestPressed
     /\ (KEY_read = 0) <=> (keys = {})
     /\ (pc = "debounce" /\ pc' # pc)
          => /\ pc' = EntryOf(LowestPressed)
             /\ LowestPressed \in 1..4
                  => (KeyOf(proto') = LowestPressed /\ wave' = <<>>)
             /\ LowestPressed \in {0, 5}
                  => (wave' = wave /\ led' = led /\ UNCHANGED Args)
     /\ (pc' = "debounce" /\ pc # "debounce") => (pc = "standby" /\ evt)
     /\ pc # "debounce"
          => /\ UNCHANGED Args
             /\ pc' = "dly10" => pc = "dly10"
             /\ pc \in MainPcs => (wave' = wave /\ led' = led)
             /\ pc \notin MainPcs
                  => /\ pc \in EncoderPcs(proto)
                     /\ pc' \in EncoderPcs(proto) \cup {"standby"}]_vars

\* the RC-5 call of key 2 has begun while keys 2 and 4 are down, with no
\* key pressed since the wake-up
C27_Witness ==
  /\ pc = "rc5_bits" /\ proto = "RC5" /\ keys = {2, 4} /\ ~evt
  /\ wave = <<>> /\ reps = 0

====
